---- MODULE Spec2Model ----
(***************************************************************************)
(* Model of src/utils/contacts.ts: the three contact lookups               *)
(* (getAllNumbers, findNumber, findContactByPhone), the access probe they  *)
(* share, the three AppleScript programs they hand to the bridge, and the  *)
(* JavaScript that converts what the bridge delivers.                      *)
(*                                                                         *)
(* A string is a sequence of one-character strings (<<"A","l">> is "Al"),  *)
(* so that trimming, lower-casing, the /[^0-9+]/g replacement and the      *)
(* substring tests are computed and not assumed.                           *)
(*                                                                         *)
(* The bridge (run-applescript) and the Contacts application are outside   *)
(* the repository.  The bridge is modelled as the spec describes it: each  *)
(* call either throws or delivers the script's value, as a list, or        *)
(* collapsed (one record or one string in place of a one-element list,     *)
(* nothing in place of an empty list).  What AppleScript's "contains" does *)
(* with letter case and with an empty operand is left open: both readings  *)
(* are states of the model (considerCase, emptyContained).                 *)
(***************************************************************************)
EXTENDS Integers, Sequences, FiniteSets, TLC

VARIABLES
    people,          \* the source: the Contacts application's people, in order
    considerCase,    \* the source compares letters case-sensitively
    emptyContained,  \* the source takes "" to be contained in every string
    request,         \* per invocation: the exported function called and its argument
    pc,              \* per invocation: the await it is suspended at
    search,          \* per frame: searchName / searchNumber, the local that lives across awaits
    bulk,            \* per invocation: allNumbers / allContacts, what the fallback's getAllNumbers returned
    log,             \* per invocation: the bridge calls it has dispatched, with their outcome
    ret              \* per invocation: how the promise settled

vars == <<people, considerCase, emptyContained, request, pc, search, bulk, log, ret>>

----------------------------------------------------------------------------
(* Configuration and bounds *)

MAX_CONTACTS == 100

\* small directories hold up to MaxPeople records of ContactPool
MaxPeople == 2
\* the large directory holds MAX_CONTACTS + BigExtra records
BigExtra == 2

Invocations == {"a", "b"}

----------------------------------------------------------------------------
(* Strings *)

Digits == <<"0", "1", "2", "3", "4", "5", "6", "7", "8", "9">>
UpperCase == <<"A", "B", "C", "D", "E", "F", "G", "H", "I", "J", "K", "L", "M",
               "N", "O", "P", "Q", "R", "S", "T", "U", "V", "W", "X", "Y", "Z">>
LowerCase == <<"a", "b", "c", "d", "e", "f", "g", "h", "i", "j", "k", "l", "m",
               "n", "o", "p", "q", "r", "s", "t", "u", "v", "w", "x", "y", "z">>
WhiteSpace == {" ", "\t", "\n"}

IsDigit(c) == \E k \in 1..10 : Digits[k] = c
DigitValue(c) == (CHOOSE k \in 1..10 : Digits[k] = c) - 1

ToLowerChar(c) ==
    IF \E k \in 1..26 : UpperCase[k] = c
    THEN LowerCase[CHOOSE k \in 1..26 : UpperCase[k] = c]
    ELSE c

\* String.prototype.toLowerCase
ToLowerCase(s) == [k \in 1..Len(s) |-> ToLowerChar(s[k])]

RECURSIVE TrimStart(_)
TrimStart(s) ==
    IF s # <<>> /\ Head(s) \in WhiteSpace THEN TrimStart(Tail(s)) ELSE s

RECURSIVE TrimEnd(_)
TrimEnd(s) ==
    IF s # <<>> /\ s[Len(s)] \in WhiteSpace
    THEN TrimEnd(SubSeq(s, 1, Len(s) - 1))
    ELSE s

\* String.prototype.trim
Trim(s) == TrimEnd(TrimStart(s))

\* String.prototype.includes
Includes(s, sub) ==
    \E k \in 0..(Len(s) - Len(sub)) : SubSeq(s, k + 1, k + Len(sub)) = sub

\* the blank test without its trim
IsBlankWithoutTrim(s) == s = <<>>

\* !x || x.trim() === ''
IsBlank(s) == s = <<>> \/ Trim(s) = <<>>

\* x.replace(/[^0-9+]/g, '')
KeptByNormalize(c) == IsDigit(c) \/ c = "+"
NormalizePhone(s) == SelectSeq(s, KeptByNormalize)

----------------------------------------------------------------------------
(* Loops *)

\* The iterations from..to of a loop, in order, from the loop's variables v.
\* Body(i, v) is one iteration; an iteration that leaves the loop ("exit
\* repeat", a return, find's hit) sets v.exit and the later ones do not run.
\* The range is halved to keep the evaluation shallow; the order is the loop's.
RECURSIVE Repeat(_, _, _, _)
Repeat(Body(_, _), from, to, v) ==
    IF from > to \/ v.exit THEN v
    ELSE IF from = to THEN Body(from, v)
    ELSE LET mid == (from + to) \div 2
         IN Repeat(Body, mid + 1, to, Repeat(Body, from, mid, v))

----------------------------------------------------------------------------
(* The source *)

Phone(v) == [err |-> FALSE, value |-> v]
BadPhone == [err |-> TRUE, value |-> <<>>]

Person(n, ph) == [name |-> n, nameErr |-> FALSE, phonesErr |-> FALSE, phones |-> ph]

CAl == Person(<<"A", "l">>, <<Phone(<<"5", "-", "5">>)>>)
CSal == Person(<<"S", "A", "L">>, <<Phone(<<"+", "1", "5", "5">>), BadPhone, Phone(<<" ">>)>>)
CAl2 == Person(<<"A", "l">>, <<BadPhone, Phone(<<"7">>)>>)
CSeven == Person(<<"7">>, <<Phone(<<"1", "+", "5">>), Phone(<<"5", "5">>)>>)
CBo == Person(<<"B", "o">>, <<Phone(<<>>), BadPhone>>)
CNameErr == [name |-> <<>>, nameErr |-> TRUE, phonesErr |-> FALSE,
             phones |-> <<Phone(<<"5", "5">>)>>]
CPhonesErr == [name |-> <<"C", "y">>, nameErr |-> FALSE, phonesErr |-> TRUE,
               phones |-> <<>>]
CNoName == Person(<<>>, <<Phone(<<"x">>)>>)

ContactPool == {CAl, CSal, CAl2, CSeven, CBo, CNameErr, CPhonesErr, CNoName}

RECURSIVE DecimalString(_)
DecimalString(n) ==
    IF n < 10 THEN <<Digits[n + 1]>>
    ELSE Append(DecimalString(n \div 10), Digits[(n % 10) + 1])

\* a person named "c<k>", with one phone
Numbered(k) == Person(<<"c">> \o DecimalString(k), <<Phone(<<"5">>)>>)

\* one person without a phone, then more people with phones than MAX_CONTACTS
CrowdedDirectory ==
    [k \in 1..(MAX_CONTACTS + BigExtra) |-> IF k = 1 THEN CBo ELSE Numbered(k)]

TailPerson(j) == IF j % 3 = 1 THEN CAl ELSE IF j % 3 = 2 THEN CAl2 ELSE CSal

\* BigExtra people without a phone first, so that the last BigExtra people lie
\* beyond the first MAX_CONTACTS people and within the first MAX_CONTACTS with phones
TailDirectory ==
    [k \in 1..(MAX_CONTACTS + BigExtra) |->
        IF k <= BigExtra THEN CBo
        ELSE IF k <= MAX_CONTACTS THEN Numbered(k)
        ELSE TailPerson(k - MAX_CONTACTS)]

SmallDirectories == UNION {[1..n -> ContactPool] : n \in 0..MaxPeople}

Directories == SmallDirectories \cup {CrowdedDirectory, TailDirectory}

----------------------------------------------------------------------------
(* AppleScript, as the Contacts application evaluates it *)

\* a contains b
AppleScriptContains(a, b) ==
    IF b = <<>> THEN emptyContained
    ELSE IF considerCase THEN Includes(a, b)
    ELSE Includes(ToLowerCase(a), ToLowerCase(b))

\* if phoneValue is not "" (lines 54, 132)
PhoneValueKept(phoneValue) == phoneValue # <<>>

\* the inner repeat over phonesList (lines 51-60, 129-138): entries whose value
\* cannot be read are skipped, and so are empty values
RECURSIVE CollectPhones(_)
CollectPhones(phonesList) ==
    IF phonesList = <<>> THEN <<>>
    ELSE LET phoneItem == Head(phonesList) IN
         IF ~phoneItem.err /\ PhoneValueKept(phoneItem.value)
         THEN <<phoneItem.value>> \o CollectPhones(Tail(phonesList))
         ELSE CollectPhones(Tail(phonesList))

\* the phone loop without its inner try: one unreadable entry loses the person's phones
PersonPhonesWithoutInnerTry(currentPerson) ==
    IF currentPerson.phonesErr
       \/ \E k \in 1..Len(currentPerson.phones) : currentPerson.phones[k].err
    THEN <<>>
    ELSE CollectPhones(currentPerson.phones)

\* the try around "phones of currentPerson" (lines 49-63)
PersonPhones(currentPerson) ==
    IF currentPerson.phonesErr THEN <<>>
    ELSE CollectPhones(currentPerson.phones)

\* the limit test, off by one
AtLimitOffByOne(contactCount) == contactCount > MAX_CONTACTS

\* if contactCount >= MAX_CONTACTS then exit repeat (line 42)
AtLimit(contactCount) == contactCount >= MAX_CONTACTS

\* if (count of personPhones) > 0 (line 66)
HasPhones(personPhones) == Len(personPhones) > 0

\* one iteration of the repeat of getAllNumbers' script (lines 42-73)
EnumerationBody(allPeople, i, v) ==
    IF AtLimit(v.contactCount) THEN [v EXCEPT !.exit = TRUE]
    ELSE LET currentPerson == allPeople[i]
             personPhones == PersonPhones(currentPerson)
         IN IF ~currentPerson.nameErr /\ HasPhones(personPhones)
            THEN [v EXCEPT !.contactList = Append(@, [name |-> currentPerson.name,
                                                     phones |-> personPhones]),
                           !.contactCount = @ + 1]
            ELSE v

\* getAllNumbers' script (lines 33-77)
EnumerationScript(allPeople) ==
    LET Body(i, v) == EnumerationBody(allPeople, i, v)
    IN Repeat(Body, 1, Len(allPeople),
              [contactList |-> <<>>, contactCount |-> 0, exit |-> FALSE]).contactList

\* one iteration of the repeat of findNumber's script (lines 119-145)
FindNumberBody(allPeople, searchText, i, v) ==
    IF i > MAX_CONTACTS THEN [v EXCEPT !.exit = TRUE]
    ELSE LET currentPerson == allPeople[i] IN
         IF ~currentPerson.nameErr
            /\ AppleScriptContains(currentPerson.name, searchText)
         THEN [v EXCEPT !.matchedPhones = @ \o PersonPhones(currentPerson)]
         ELSE v

\* findNumber's script (lines 110-149)
FindNumberScript(allPeople, searchText) ==
    LET Body(i, v) == FindNumberBody(allPeople, searchText, i, v)
    IN Repeat(Body, 1, Len(allPeople),
              [matchedPhones |-> <<>>, exit |-> FALSE]).matchedPhones

\* the inner repeat of findContactByPhone's script (lines 200-214): some readable
\* phone value contains searchPhone or is contained in it, unnormalized
PhoneHit(currentPerson, searchPhone) ==
    /\ ~currentPerson.phonesErr
    /\ \E k \in 1..Len(currentPerson.phones) :
          LET phoneItem == currentPerson.phones[k] IN
          /\ ~phoneItem.err
          /\ \/ AppleScriptContains(phoneItem.value, searchPhone)
             \/ AppleScriptContains(searchPhone, phoneItem.value)

\* one iteration of the repeat of findContactByPhone's script (lines 192-220);
\* when the name of a person with a hit cannot be read, the inner try swallows
\* the error, foundName stays "" and the scan goes on
FindByPhoneBody(allPeople, searchPhone, i, v) ==
    IF i > MAX_CONTACTS \/ v.foundName # <<>> THEN [v EXCEPT !.exit = TRUE]
    ELSE LET currentPerson == allPeople[i] IN
         IF PhoneHit(currentPerson, searchPhone) /\ ~currentPerson.nameErr
         THEN [v EXCEPT !.foundName = currentPerson.name]
         ELSE v

\* findContactByPhone's script (lines 183-224)
FindByPhoneScript(allPeople, searchPhone) ==
    LET Body(i, v) == FindByPhoneBody(allPeople, searchPhone, i, v)
    IN Repeat(Body, 1, Len(allPeople), [foundName |-> <<>>, exit |-> FALSE]).foundName

----------------------------------------------------------------------------
(* The bridge's result and its conversion *)

\* what runAppleScript resolves to for a list: the list, or (collapsed) its only
\* element in place of a one-element list and nothing in place of an empty one
Deliver(list, collapse) ==
    IF collapse /\ Len(list) <= 1
    THEN [isArray |-> FALSE, items |-> list]
    ELSE [isArray |-> TRUE, items |-> list]

\* the records of the enumeration, their phones delivered the same way
DeliverContacts(contactList, collapse) ==
    Deliver([k \in 1..Len(contactList) |->
                [name |-> contactList[k].name,
                 phones |-> Deliver(contactList[k].phones, collapse)]],
            collapse)

\* Array.isArray(result) ? result : (result ? [result] : [])   (lines 82, 152);
\* a record is truthy, a string is truthy when it is not empty
ToArrayOfRecords(result) ==
    IF result.isArray THEN result.items
    ELSE IF result.items # <<>> THEN <<result.items[1]>> ELSE <<>>

ToArrayOfStrings(result) ==
    IF result.isArray THEN result.items
    ELSE IF result.items # <<>> /\ result.items[1] # <<>>
         THEN <<result.items[1]>> ELSE <<>>

\* contact && contact.name && contact.phones (line 86)
ContactAccepted(contact) ==
    /\ contact.name # <<>>
    /\ \/ contact.phones.isArray
       \/ (contact.phones.items # <<>> /\ contact.phones.items[1] # <<>>)

\* Array.isArray(contact.phones) ? contact.phones : [contact.phones] (line 87)
PhonesArray(phones) ==
    IF phones.isArray THEN phones.items ELSE <<phones.items[1]>>

(* A JavaScript object with string keys, as the sequence of its entries in *)
(* property order: keys that are array indices first, in ascending numeric *)
(* order, then the other keys in the order they were first set.            *)

\* a canonical array index: decimal digits, no leading zero, below 2^32 - 1
IsIndexKey(key) ==
    /\ key # <<>>
    /\ \A k \in 1..Len(key) : IsDigit(key[k])
    /\ (Len(key) > 1 => key[1] # "0")
    /\ Len(key) <= 9

RECURSIVE IndexValue(_)
IndexValue(key) ==
    IF key = <<>> THEN 0
    ELSE 10 * IndexValue(SubSeq(key, 1, Len(key) - 1)) + DigitValue(key[Len(key)])

HasKey(obj, key) == \E k \in 1..Len(obj) : obj[k].key = key

\* where a new key goes
InsertAt(obj, key) ==
    IF IsIndexKey(key)
    THEN 1 + Cardinality({k \in 1..Len(obj) :
                 IsIndexKey(obj[k].key) /\ IndexValue(obj[k].key) < IndexValue(key)})
    ELSE Len(obj) + 1

\* obj[key] = val
SetProperty(obj, key, val) ==
    IF HasKey(obj, key)
    THEN [k \in 1..Len(obj) |->
             IF obj[k].key = key THEN [key |-> key, val |-> val] ELSE obj[k]]
    ELSE LET at == InsertAt(obj, key) IN
         SubSeq(obj, 1, at - 1) \o <<[key |-> key, val |-> val]>>
             \o SubSeq(obj, at, Len(obj))

\* one iteration of the conversion loop of getAllNumbers (lines 85-89)
ConvertBody(resultArray, i, v) ==
    LET contact == resultArray[i] IN
    IF ContactAccepted(contact)
    THEN [v EXCEPT !.phoneNumbers =
                        SetProperty(@, contact.name, PhonesArray(contact.phones))]
    ELSE v

\* lines 79-91 of getAllNumbers, after the await
PhoneNumbersOf(result) ==
    LET resultArray == ToArrayOfRecords(result)
        Body(i, v) == ConvertBody(resultArray, i, v)
    IN Repeat(Body, 1, Len(resultArray),
              [phoneNumbers |-> <<>>, exit |-> FALSE]).phoneNumbers

\* phone && phone.trim() !== '' (line 163)
PhoneNonBlank(phone) == phone # <<>> /\ Trim(phone) # <<>>

\* personName.toLowerCase().includes(searchName) (line 158)
NameMatches(personName, searchName) == Includes(ToLowerCase(personName), searchName)

\* a scan that keeps the last matching key
FindKeyBodyLastMatch(allNumbers, searchName, i, v) ==
    IF NameMatches(allNumbers[i].key, searchName)
    THEN [closestMatch |-> allNumbers[i].key, exit |-> FALSE]
    ELSE v

\* one step of Object.keys(allNumbers).find(...) (lines 157-159)
FindKeyBody(allNumbers, searchName, i, v) ==
    IF NameMatches(allNumbers[i].key, searchName)
    THEN [closestMatch |-> allNumbers[i].key, exit |-> TRUE]
    ELSE v

\* allNumbers[key]
GetProperty(obj, key) == obj[CHOOSE k \in 1..Len(obj) : obj[k].key = key].val

\* lines 157-160: closestMatch ? allNumbers[closestMatch] : []
ClosestMatch(allNumbers, searchName) ==
    LET Body(i, v) == FindKeyBody(allNumbers, searchName, i, v)
        closestMatch == Repeat(Body, 1, Len(allNumbers),
                               [closestMatch |-> <<>>, exit |-> FALSE]).closestMatch
    IN IF closestMatch # <<>> THEN GetProperty(allNumbers, closestMatch) ELSE <<>>

\* the test without its two containment clauses
NumberMatchesWithoutOverlap(num, searchNumber) ==
    \/ num = searchNumber
    \/ num = <<"+">> \o searchNumber
    \/ num = <<"+", "1">> \o searchNumber
    \/ <<"+", "1">> \o num = searchNumber

\* the test of lines 237-244 on one normalized number
NumberMatches(num, searchNumber) ==
    \/ num = searchNumber
    \/ num = <<"+">> \o searchNumber
    \/ num = <<"+", "1">> \o searchNumber
    \/ <<"+", "1">> \o num = searchNumber
    \/ Includes(searchNumber, num)
    \/ Includes(num, searchNumber)

\* lines 236-237: numbers.map(normalize).some(...)
SomeNumberMatches(numbers, searchNumber) ==
    \E k \in 1..Len(numbers) : NumberMatches(NormalizePhone(numbers[k]), searchNumber)

\* one iteration of the loop over Object.entries(allContacts) (lines 235-247);
\* null is <<>>, a name n is <<n>>
FirstOwnerBody(allContacts, searchNumber, i, v) ==
    IF SomeNumberMatches(allContacts[i].val, searchNumber)
    THEN [owner |-> <<allContacts[i].key>>, exit |-> TRUE]
    ELSE v

\* lines 235-249
FirstOwner(allContacts, searchNumber) ==
    LET Body(i, v) == FirstOwnerBody(allContacts, searchNumber, i, v)
    IN Repeat(Body, 1, Len(allContacts), [owner |-> <<>>, exit |-> FALSE]).owner

----------------------------------------------------------------------------
(* The exported functions *)

GetAllNumbers == "getAllNumbers"
FindNumber == "findNumber"
FindContactByPhone == "findContactByPhone"

Call(op, arg) == [op |-> op, arg |-> arg]
NoCall == Call("none", <<>>)

NameArguments ==
    { <<>>, <<" ">>, <<" ", "\t">>, <<"A", "l">>, <<"s", "a", "l">>, <<"a">>,
      <<"7">>, <<"z", "z">>, <<"c">> \o DecimalString(MAX_CONTACTS + 1) }

PhoneArguments ==
    { <<>>, <<" ">>, <<"5", "5">>, <<"5", "-", "5">>, <<"1", "5", "5">>,
      <<"+", "1", "5", "5">>, <<"1", "+", "5">>, <<"x">>, <<"9">> }

Calls ==
    {Call(GetAllNumbers, <<>>)}
        \cup {Call(FindNumber, n) : n \in NameArguments}
        \cup {Call(FindContactByPhone, n) : n \in PhoneArguments}

ConcurrentDirectories == { <<CAl, CBo>>, <<CAl, CSal>>, <<CSeven, CAl2>> }

ConcurrentCalls ==
    { Call(GetAllNumbers, <<>>),
      Call(FindNumber, <<"A", "l">>), Call(FindNumber, <<"z", "z">>),
      Call(FindContactByPhone, <<"5", "-", "5">>), Call(FindContactByPhone, <<"9">>) }

\* {}, [] and null
EmptyValue(op) == <<>>

Returned(v) == [status |-> "returned", val |-> v]
Pending == [status |-> "pending", val |-> <<>>]

\* a catch block that rethrows
OnErrorRethrows(op) == [status |-> "threw", val |-> <<>>]

\* the catch blocks of the exported functions (lines 92-95, 164-167, 250-253)
OnError(op) == Returned(EmptyValue(op))

\* an access check that reports access whatever the probe did
CheckContactsAccessIgnoresFailure(threw) == TRUE

\* checkContactsAccess (lines 11-25): true unless the probe throws
CheckContactsAccess(threw) == ~threw

\* one module-level slot for the locals of every invocation
SharedFrame(i) == "a"

\* the activation frame that holds an invocation's locals
Frame(i) == i

BridgeCall(kind, threw, collapse) == [kind |-> kind, threw |-> threw, collapse |-> collapse]

Dispatch(i, kind, threw, collapse) ==
    log' = [log EXCEPT ![i] = Append(@, BridgeCall(kind, threw, collapse))]

Settle(i, r) ==
    /\ pc' = [pc EXCEPT ![i] = "done"]
    /\ ret' = [ret EXCEPT ![i] = r]

Suspend(i, at) ==
    /\ pc' = [pc EXCEPT ![i] = at]
    /\ UNCHANGED ret

\* what findNumber (lines 157-160) and findContactByPhone (lines 235-249) make
\* of getAllNumbers' mapping
FromAllNumbers(op, allNumbers, searched) ==
    IF op = FindNumber THEN ClosestMatch(allNumbers, searched)
    ELSE FirstOwner(allNumbers, searched)

\* the first await of each exported function and what follows it up to the
\* next await (lines 29-31, 100-108, 172-181)
CheckAccess(i) ==
    /\ pc[i] = "probe"
    /\ \E threw \in BOOLEAN :
          LET op == request[i].op
              arg == request[i].arg
          IN
          /\ Dispatch(i, "probe", threw, FALSE)
          /\ IF ~CheckContactsAccess(threw)
             THEN Settle(i, Returned(EmptyValue(op))) /\ UNCHANGED search
             ELSE IF op = GetAllNumbers
             THEN Suspend(i, "enumerate") /\ UNCHANGED search
             ELSE IF IsBlank(arg)
             THEN Settle(i, Returned(EmptyValue(op))) /\ UNCHANGED search
             ELSE /\ Suspend(i, "query")
                  /\ search' = [search EXCEPT ![Frame(i)] =
                                   IF op = FindNumber THEN ToLowerCase(arg)
                                   ELSE NormalizePhone(arg)]
    /\ UNCHANGED <<people, considerCase, emptyContained, request, bulk>>

\* the targeted query and what follows it (lines 151-163, 226-233)
Query(i) ==
    /\ pc[i] = "query"
    /\ \E threw \in BOOLEAN, collapse \in BOOLEAN :
          LET op == request[i].op IN
          /\ op = FindContactByPhone => ~collapse
          /\ Dispatch(i, "query", threw, collapse)
          /\ IF threw THEN Settle(i, OnError(op))
             ELSE IF op = FindNumber
             THEN LET resultArray == ToArrayOfStrings(
                          Deliver(FindNumberScript(people, search[Frame(i)]), collapse))
                  IN IF Len(resultArray) = 0
                     THEN Suspend(i, "fallbackProbe")
                     ELSE Settle(i, Returned(SelectSeq(resultArray, PhoneNonBlank)))
             ELSE LET result == FindByPhoneScript(people, search[Frame(i)])
                  IN IF result # <<>> /\ Trim(result) # <<>>
                     THEN Settle(i, Returned(<<result>>))
                     ELSE Suspend(i, "fallbackProbe")
    /\ UNCHANGED <<people, considerCase, emptyContained, request, search, bulk>>

\* getAllNumbers called as the fallback: its access check (lines 29-31, with 156
\* and 233)
FallbackCheckAccess(i) ==
    /\ pc[i] = "fallbackProbe"
    /\ \E threw \in BOOLEAN :
          /\ Dispatch(i, "probe", threw, FALSE)
          /\ IF ~CheckContactsAccess(threw)
             THEN /\ bulk' = [bulk EXCEPT ![i] = EmptyValue(GetAllNumbers)]
                  /\ Settle(i, Returned(FromAllNumbers(request[i].op,
                                            EmptyValue(GetAllNumbers), search[Frame(i)])))
             ELSE Suspend(i, "enumerate") /\ UNCHANGED bulk
    /\ UNCHANGED <<people, considerCase, emptyContained, request, search>>

\* the enumeration of getAllNumbers (lines 79-95) and, in a fallback, the rest
\* of the caller (lines 157-160, 235-249)
Enumerate(i) ==
    /\ pc[i] = "enumerate"
    /\ \E threw \in BOOLEAN, collapse \in BOOLEAN :
          LET op == request[i].op
              all == IF threw THEN OnError(GetAllNumbers)
                     ELSE Returned(PhoneNumbersOf(
                              DeliverContacts(EnumerationScript(people), collapse)))
          IN
          /\ threw => ~collapse
          /\ Dispatch(i, "enumerate", threw, collapse)
          /\ IF op = GetAllNumbers THEN Settle(i, all) /\ UNCHANGED bulk
             ELSE IF all.status = "threw"
             THEN Settle(i, OnError(op)) /\ UNCHANGED bulk
             ELSE /\ bulk' = [bulk EXCEPT ![i] = all.val]
                  /\ Settle(i, Returned(FromAllNumbers(op, all.val, search[Frame(i)])))
    /\ UNCHANGED <<people, considerCase, emptyContained, request, search>>

InitSource(directories) ==
    /\ people \in directories
    /\ considerCase \in BOOLEAN
    /\ emptyContained \in BOOLEAN

InitInvocations ==
    /\ pc = [i \in Invocations |-> IF request[i] = NoCall THEN "off" ELSE "probe"]
    /\ search = [i \in Invocations |-> <<>>]
    /\ bulk = [i \in Invocations |-> <<>>]
    /\ log = [i \in Invocations |-> <<>>]
    /\ ret = [i \in Invocations |-> Pending]

\* one call at a time
Init ==
    /\ InitSource(SmallDirectories) \/ InitSource(Directories \ SmallDirectories)
    /\ \E c \in Calls : request = [i \in Invocations |-> IF i = "a" THEN c ELSE NoCall]
    /\ InitInvocations

\* two calls in flight together
InitConcurrent ==
    /\ InitSource(ConcurrentDirectories)
    /\ request \in [Invocations -> ConcurrentCalls]
    /\ InitInvocations

Next ==
    \E i \in Invocations :
        \/ CheckAccess(i)
        \/ Query(i)
        \/ FallbackCheckAccess(i)
        \/ Enumerate(i)

Spec == Init /\ [][Next]_vars

SpecConcurrent == InitConcurrent /\ [][Next]_vars

----------------------------------------------------------------------------
(* Properties *)

Done(i) == pc[i] = "done"

ReturnedEmpty(i) == ret[i].status = "returned" /\ ret[i].val = <<>>

\* empty, or made of white space only
AllWhiteSpace(s) == \A k \in 1..Len(s) : s[k] \in WhiteSpace

Searches(i) == request[i].op \in {FindNumber, FindContactByPhone}

FailedProbe(call) == call.kind = "probe" /\ call.threw

\* C1: whenever the access check returns false (its probe threw), the call has
\* returned its empty value, without throwing, and the failed probe is the
\* last bridge call it dispatched: no enumeration and no targeted query follows.
DeniedAccessShortCircuits ==
    \A i \in Invocations :
        \A k \in 1..Len(log[i]) :
            FailedProbe(log[i][k]) =>
                /\ k = Len(log[i])
                /\ Done(i)
                /\ ReturnedEmpty(i)

\* a findNumber call with a name to look for, stopped by its first probe
DeniedAccessWitness ==
    \E i \in Invocations :
        /\ request[i] = Call(FindNumber, <<"A", "l">>)
        /\ Done(i)
        /\ Len(log[i]) = 1
        /\ FailedProbe(log[i][1])
        /\ ReturnedEmpty(i)

\* C2, as claimed: for a blank or whitespace-only argument findNumber and
\* findContactByPhone return [] and null and issue no query at all to the bridge.
BlankInputIssuesNoQuery ==
    \A i \in Invocations :
        (Searches(i) /\ AllWhiteSpace(request[i].arg)) =>
            /\ log[i] = <<>>
            /\ Done(i) => ReturnedEmpty(i)

\* C2, amended: for a blank or whitespace-only argument findNumber and
\* findContactByPhone return [] and null, and the access probe is the only
\* bridge call they dispatch: no targeted query and no enumeration.
BlankInputIssuesOnlyTheProbe ==
    \A i \in Invocations :
        (Searches(i) /\ AllWhiteSpace(request[i].arg)) =>
            /\ Len(log[i]) <= 1
            /\ \A k \in 1..Len(log[i]) : log[i][k].kind = "probe"
            /\ pc[i] \in {"probe", "done"}
            /\ Done(i) => ReturnedEmpty(i)

\* a whitespace-only name, after a probe that succeeded
BlankInputWitness ==
    \E i \in Invocations :
        /\ request[i] = Call(FindNumber, <<" ", "\t">>)
        /\ Done(i)
        /\ Len(log[i]) = 1
        /\ ~log[i][1].threw
        /\ ReturnedEmpty(i)

\* C3: whatever the source holds and however the bridge shapes its result,
\* the mapping getAllNumbers returns has at most MAX_CONTACTS entries and maps
\* no name to an empty phone list.
EnumerationIsBoundedAndNonEmpty ==
    \A i \in Invocations :
        (request[i].op = GetAllNumbers /\ Done(i)) =>
            /\ ret[i].status = "returned"
            /\ Len(ret[i].val) <= MAX_CONTACTS
            /\ \A k \in 1..Len(ret[i].val) : ret[i].val[k].val # <<>>

\* more people with phones than the maximum, and a mapping of exactly the maximum
EnumerationBoundWitness ==
    \E i \in Invocations :
        /\ request[i].op = GetAllNumbers
        /\ Done(i)
        /\ Len(people) > MAX_CONTACTS + 1
        /\ Len(ret[i].val) = MAX_CONTACTS

\* C4: no exception escapes an exported function; a bridge call that throws
\* (probe, targeted query or fallback enumeration) ends the call with the empty
\* value, and it is the last bridge call dispatched: nothing is retried.
NoExceptionEscapes ==
    \A i \in Invocations :
        /\ ret[i].status # "threw"
        /\ \A k \in 1..Len(log[i]) :
              log[i][k].threw =>
                  /\ k = Len(log[i])
                  /\ Done(i)
                  /\ ReturnedEmpty(i)

\* findContactByPhone whose fallback enumeration threw, after three good calls
ThrowingEnumerationWitness ==
    \E i \in Invocations :
        /\ request[i].op = FindContactByPhone
        /\ Done(i)
        /\ Len(log[i]) = 4
        /\ log[i][4].kind = "enumerate"
        /\ log[i][4].threw
        /\ ReturnedEmpty(i)

\* the least element of a non-empty set of positions
FirstIndex(S) == CHOOSE k \in S : \A j \in S : k <= j
LastIndex(S) == CHOOSE k \in S : \A j \in S : j <= k

\* the first two bridge calls, the probe and the targeted query, both came back
ProbedAndQueried(i) ==
    /\ Len(log[i]) >= 2
    /\ ~log[i][1].threw
    /\ log[i][2].kind = "query"
    /\ ~log[i][2].threw

\* the fallback's getAllNumbers got its enumeration back from the bridge
FallbackEnumerated(i) ==
    /\ Done(i)
    /\ Len(log[i]) = 4
    /\ ~log[i][3].threw
    /\ log[i][4].kind = "enumerate"
    /\ ~log[i][4].threw

\* what getAllNumbers returned to the fallback, from the calls it made
FallbackMapping(i) ==
    IF FallbackEnumerated(i)
    THEN PhoneNumbersOf(DeliverContacts(EnumerationScript(people), log[i][4].collapse))
    ELSE <<>>

\* the targeted name query of invocation i found no phone
NameQueryCameBackEmpty(i) ==
    /\ request[i].op = FindNumber
    /\ ~AllWhiteSpace(request[i].arg)
    /\ ProbedAndQueried(i)
    /\ FindNumberScript(people, ToLowerCase(request[i].arg)) = <<>>

\* the positions of a mapping whose lower-cased key contains the lower-cased query
KeysContaining(mapping, name) ==
    {k \in 1..Len(mapping) :
        Includes(ToLowerCase(mapping[k].key), ToLowerCase(name))}

\* the enumerated contacts whose lower-cased name contains the lower-cased query
ContactsContaining(contactList, name) ==
    {k \in 1..Len(contactList) :
        Includes(ToLowerCase(contactList[k].name), ToLowerCase(name))}

\* C5, as claimed: when the targeted query yields nothing, findNumber returns
\* the full phone list of the first contact, in the order the contacts were
\* enumerated, whose lower-cased name contains the lower-cased query, and []
\* when there is none.  Stated here for a source whose "contains" ignores
\* case, as AppleScript's does unless told otherwise, and for an enumeration
\* that came back.
NameFallbackReturnsFirstContact ==
    \A i \in Invocations :
        (~considerCase /\ NameQueryCameBackEmpty(i) /\ FallbackEnumerated(i)) =>
            LET contactList == EnumerationScript(people)
                hits == ContactsContaining(contactList, request[i].arg)
            IN ret[i] = Returned(IF hits = {} THEN <<>>
                                 ELSE contactList[FirstIndex(hits)].phones)

\* C5, amended: when the targeted query yields nothing, findNumber calls
\* getAllNumbers and returns the phone list its mapping holds under the first
\* key, in the mapping's key order, whose lower-cased form contains the
\* lower-cased query, and [] when there is none; it never merges entries.
\* (A name shared by several contacts is one key, holding the last one's
\* phones; names that are array indices come first among the keys.)
NameFallbackReturnsFirstKey ==
    \A i \in Invocations :
        NameQueryCameBackEmpty(i) =>
            /\ pc[i] \in {"fallbackProbe", "enumerate", "done"}
            /\ Done(i) =>
                  LET hits == KeysContaining(bulk[i], request[i].arg) IN
                  /\ Len(log[i]) >= 3
                  /\ log[i][3].kind = "probe"
                  /\ bulk[i] = FallbackMapping(i)
                  /\ ret[i] = Returned(IF hits = {} THEN <<>>
                                       ELSE bulk[i][FirstIndex(hits)].val)

\* a fallback that had two matching keys to choose from
NameFallbackWitness ==
    \E i \in Invocations :
        /\ NameQueryCameBackEmpty(i)
        /\ FallbackEnumerated(i)
        /\ Cardinality(KeysContaining(bulk[i], request[i].arg)) >= 2
        /\ ret[i].val # <<>>

\* the six tests of the claim on a normalized stored number and the search number
ClaimedMatch(num, searchNumber) ==
    \/ num = searchNumber
    \/ num = <<"+">> \o searchNumber
    \/ num = <<"+", "1">> \o searchNumber
    \/ <<"+", "1">> \o num = searchNumber
    \/ \E k \in 0..(Len(searchNumber) - Len(num)) :
          SubSeq(searchNumber, k + 1, k + Len(num)) = num
    \/ \E k \in 0..(Len(num) - Len(searchNumber)) :
          SubSeq(num, k + 1, k + Len(searchNumber)) = searchNumber

HasClaimedMatch(phones, searchNumber) ==
    \E p \in 1..Len(phones) : ClaimedMatch(NormalizePhone(phones[p]), searchNumber)

\* the primary phone query of invocation i found no name
PhoneQueryCameBackEmpty(i) ==
    /\ request[i].op = FindContactByPhone
    /\ ~AllWhiteSpace(request[i].arg)
    /\ ProbedAndQueried(i)
    /\ AllWhiteSpace(FindByPhoneScript(people, NormalizePhone(request[i].arg)))

\* some phone value of the source that can be read matches the search number
DirectoryHoldsMatch(searchNumber) ==
    \E k \in 1..Len(people) :
        /\ ~people[k].phonesErr
        /\ \E p \in 1..Len(people[k].phones) :
              /\ ~people[k].phones[p].err
              /\ ClaimedMatch(NormalizePhone(people[k].phones[p].value), searchNumber)

\* C6, as claimed: when the primary query finds nothing, findContactByPhone
\* returns the name of the first contact, in the order the contacts were
\* enumerated, that has a phone whose normalized form passes one of the six
\* tests, and null when there is none.  Stated here for contacts that all
\* have a name, for a query that keeps a character when normalised, and for
\* an enumeration that came back.
PhoneFallbackReturnsFirstContact ==
    \A i \in Invocations :
        (PhoneQueryCameBackEmpty(i) /\ FallbackEnumerated(i)) =>
            LET contactList == EnumerationScript(people)
                searchNumber == NormalizePhone(request[i].arg)
                hits == {k \in 1..Len(contactList) :
                            HasClaimedMatch(contactList[k].phones, searchNumber)}
            IN (/\ searchNumber # <<>>
                /\ \A k \in 1..Len(contactList) : contactList[k].name # <<>>) =>
                    ret[i] = Returned(IF hits = {} THEN <<>>
                                      ELSE <<contactList[FirstIndex(hits)].name>>)

\* C6, amended: when the primary query finds nothing, findContactByPhone
\* calls getAllNumbers and returns the first key, in the mapping's key order,
\* under which the mapping holds a phone whose normalized form passes one of the
\* six tests, and null when the mapping holds none, as it does whenever the
\* directory holds no matching or overlapping number.
PhoneFallbackReturnsFirstKey ==
    \A i \in Invocations :
        PhoneQueryCameBackEmpty(i) =>
            /\ pc[i] \in {"fallbackProbe", "enumerate", "done"}
            /\ Done(i) =>
                  LET searchNumber == NormalizePhone(request[i].arg)
                      hits == {k \in 1..Len(bulk[i]) :
                                  HasClaimedMatch(bulk[i][k].val, searchNumber)}
                  IN
                  /\ Len(log[i]) >= 3
                  /\ log[i][3].kind = "probe"
                  /\ bulk[i] = FallbackMapping(i)
                  /\ ret[i] = Returned(IF hits = {} THEN <<>>
                                       ELSE <<bulk[i][FirstIndex(hits)].key>>)
                  /\ ~DirectoryHoldsMatch(searchNumber) => ret[i].val = <<>>

\* a fallback that found its owner by containment alone, behind a key that does not match
PhoneFallbackWitness ==
    \E i \in Invocations :
        /\ PhoneQueryCameBackEmpty(i)
        /\ FallbackEnumerated(i)
        /\ Len(bulk[i]) = 2
        /\ ret[i].val = <<bulk[i][2].key>>
        /\ request[i].arg = <<"9">>

\* digits only, after at most one plus sign at the front
DigitsAfterLeadingPlus(n) ==
    \A k \in 1..Len(n) : IsDigit(n[k]) \/ (k = 1 /\ n[k] = "+")

\* C7: the normalized search number of findContactByPhone, and the normalized
\* form of every stored phone its fallback compares, is made of digits only,
\* optionally preceded by one plus sign at position 0.
NormalizedIsDigitsAfterLeadingPlus ==
    \A i \in Invocations :
        request[i].op = FindContactByPhone =>
            /\ DigitsAfterLeadingPlus(search[i])
            /\ \A k \in 1..Len(bulk[i]) :
                  \A p \in 1..Len(bulk[i][k].val) :
                      DigitsAfterLeadingPlus(NormalizePhone(bulk[i][k].val[p]))

\* the values of a person's phone entries that can be read and are not empty
ReadablePhones(person) ==
    LET kept == SelectSeq(person.phones, LAMBDA e : ~e.err /\ e.value # <<>>)
    IN [k \in 1..Len(kept) |-> kept[k].value]

\* a person whose record can be read and who has a non-empty phone value
Qualifies(person) ==
    /\ ~person.nameErr
    /\ ~person.phonesErr
    /\ ReadablePhones(person) # <<>>

\* fewer than MAX_CONTACTS qualifying people come before the k-th
WithinBound(k) ==
    Cardinality({j \in 1..(k - 1) : Qualifies(people[j])}) < MAX_CONTACTS

\* some record, or some phone entry, of the source cannot be read
SomeReadFails ==
    \E k \in 1..Len(people) :
        \/ people[k].nameErr
        \/ people[k].phonesErr
        \/ \E p \in 1..Len(people[k].phones) : people[k].phones[p].err

\* getAllNumbers got its enumeration back from the bridge and returned
EnumerationReturned(i) ==
    /\ request[i].op = GetAllNumbers
    /\ Done(i)
    /\ Len(log[i]) = 2
    /\ ~log[i][2].threw

Holds(mapping, name, phones) ==
    \E e \in 1..Len(mapping) : mapping[e].key = name /\ mapping[e].val = phones

\* the last qualifying person within the bound who bears the name of the k-th
LastNamesake(k) ==
    LastIndex({j \in 1..Len(people) :
                  /\ Qualifies(people[j])
                  /\ WithinBound(j)
                  /\ people[j].name = people[k].name})

\* C9, as claimed: when a record or a phone entry cannot be read, every other
\* contact within the bound that has a non-empty phone value is in the result
\* with its phones.  Stated here for the contacts that have a name.
ReadableContactsKeepTheirPhones ==
    \A i \in Invocations :
        (EnumerationReturned(i) /\ SomeReadFails) =>
            \A k \in 1..Len(people) :
                (Qualifies(people[k]) /\ WithinBound(k) /\ people[k].name # <<>>) =>
                    Holds(ret[i].val, people[k].name, ReadablePhones(people[k]))

\* C9, amended: when a record or a phone entry cannot be read, every other
\* contact within the bound that has a name and a non-empty phone value is in
\* the result under its name, with the phones of the last such contact of that
\* name: its own, unless a later contact within the bound shares its name.
ReadableContactsKeepTheirNames ==
    \A i \in Invocations :
        (EnumerationReturned(i) /\ SomeReadFails) =>
            \A k \in 1..Len(people) :
                (Qualifies(people[k]) /\ WithinBound(k) /\ people[k].name # <<>>) =>
                    Holds(ret[i].val, people[k].name,
                          ReadablePhones(people[LastNamesake(k)]))

\* a record that cannot be read, then a contact with an unreadable entry among its phones
PartialFailureWitness ==
    \E i \in Invocations :
        /\ EnumerationReturned(i)
        /\ people = <<CNameErr, CSal>>
        /\ Holds(ret[i].val, CSal.name, ReadablePhones(CSal))

\* C10: no phone string in a list returned by getAllNumbers is empty or made
\* of white space only.
NoBlankPhoneReturned ==
    \A i \in Invocations :
        (request[i].op = GetAllNumbers /\ Done(i)) =>
            \A k \in 1..Len(ret[i].val) :
                \A p \in 1..Len(ret[i].val[k].val) :
                    ~AllWhiteSpace(ret[i].val[k].val[p])

\* the outcome of the k-th bridge call of a log; a call that was not made
\* counts as one that succeeded
Outcome(calls, k) ==
    IF k <= Len(calls) THEN calls[k] ELSE [threw |-> FALSE, collapse |-> FALSE]

\* getAllNumbers run from bridge call k of a log: its probe, then its enumeration
GetAllNumbersAlone(calls, k) ==
    IF Outcome(calls, k).threw \/ Outcome(calls, k + 1).threw THEN <<>>
    ELSE PhoneNumbersOf(DeliverContacts(EnumerationScript(people),
                                        Outcome(calls, k + 1).collapse))

\* findNumber run on its own, given the outcomes of its bridge calls
FindNumberAlone(name, calls) ==
    IF Outcome(calls, 1).threw \/ AllWhiteSpace(name) THEN <<>>
    ELSE IF Outcome(calls, 2).threw THEN <<>>
    ELSE LET resultArray == ToArrayOfStrings(
                 Deliver(FindNumberScript(people, ToLowerCase(name)),
                         Outcome(calls, 2).collapse))
         IN IF resultArray # <<>> THEN SelectSeq(resultArray, PhoneNonBlank)
            ELSE ClosestMatch(GetAllNumbersAlone(calls, 3), ToLowerCase(name))

\* findContactByPhone run on its own, given the outcomes of its bridge calls
FindContactByPhoneAlone(phoneNumber, calls) ==
    IF Outcome(calls, 1).threw \/ AllWhiteSpace(phoneNumber) THEN <<>>
    ELSE IF Outcome(calls, 2).threw THEN <<>>
    ELSE LET result == FindByPhoneScript(people, NormalizePhone(phoneNumber))
         IN IF ~AllWhiteSpace(result) THEN <<result>>
            ELSE FirstOwner(GetAllNumbersAlone(calls, 3), NormalizePhone(phoneNumber))

\* what a call returns when it runs alone against the source, given the
\* outcomes of the bridge calls it made
Alone(call, calls) ==
    IF call.op = GetAllNumbers THEN GetAllNumbersAlone(calls, 1)
    ELSE IF call.op = FindNumber THEN FindNumberAlone(call.arg, calls)
    ELSE FindContactByPhoneAlone(call.arg, calls)

\* C8: with two calls in flight against an unchanging source, under every
\* interleaving of their bridge calls each call returns what it returns when
\* it runs alone.
ConcurrentCallsAreIndependent ==
    \A i \in Invocations :
        Done(i) => ret[i] = Returned(Alone(request[i], log[i]))

\* two searches started together, each of which went through its probe, its
\* query, the fallback's probe and the enumeration, and found something
InterleavedWitness ==
    /\ request["a"] = Call(FindNumber, <<"A", "l">>)
    /\ request["b"] = Call(FindContactByPhone, <<"5", "-", "5">>)
    /\ Done("a") /\ Done("b")
    /\ Len(log["a"]) = 4 /\ Len(log["b"]) = 4
    /\ ret["a"].val # <<>>
    /\ ret["b"].val # <<>>

====
